---- MODULE Spec2Model ----
(***************************************************************************)
(* Model of src/src/runtime_stub.c (nbjit runtime stub library): eight     *)
(* static function pointers, the initializer nbjit_init_runtime that       *)
(* stores its eight arguments into them, and eight stubs that call through *)
(* them.  The functions installed by the host are modelled as stand-ins    *)
(* that record what they were called with and return a value determined    *)
(* by their identity and their arguments.                                  *)
(***************************************************************************)
EXTENDS Integers, Sequences, FiniteSets, TLC

VARIABLES fp, installed, epoch, call, pc, pend

vars == <<fp, installed, epoch, call, pc, pend>>

(* ------------------------------ bounds --------------------------------- *)

\* number of nbjit_init_runtime calls in one run
MaxInits == 3
\* number of distinct opaque handles, C strings and doubles a caller passes
NumOpaque == 2
\* number of null arguments in one nbjit_init_runtime call (all eight null
\* is always among the inputs)
MaxNullArgs == 1

(* ------------------------------ values --------------------------------- *)

\* The statics of lines 31-38, in declaration order; the k-th parameter of
\* nbjit_init_runtime (lines 42-49) is declared in the same order.
Params ==
    << "dict_new", "dict_getindex", "dict_setindex_bang", "symbol_from_cstr",
       "box_int64", "box_float64", "unbox_int64", "unbox_float64" >>

SlotNames == { Params[k] : k \in 1..Len(Params) }

\* A function pointer is <<e, k>>: the stand-in the host made for the k-th
\* parameter of its e-th nbjit_init_runtime call.  The null pointer is the
\* initializer "= 0" of lines 31-38.
NULL == <<0, 0>>

StandInFor(e, k) == <<e, k>>

\* int64_t as four 16-bit limbs, most significant first, two's complement.
Limb == 2^16

Int64(l3, l2, l1, l0) == <<"int64", l3, l2, l1, l0>>

MinInt64 == Int64(Limb \div 2, 0, 0, 0)
MaxInt64 == Int64(Limb \div 2 - 1, Limb - 1, Limb - 1, Limb - 1)
MinusOne == Int64(Limb - 1, Limb - 1, Limb - 1, Limb - 1)
Zero64 == Int64(0, 0, 0, 0)
FortyTwo == Int64(0, 0, 0, 42)

Int64Vals == {MinInt64, MinusOne, Zero64, FortyTwo, MaxInt64}

Handles == { <<"handle", n>> : n \in 1..NumOpaque }
CStrings == { <<"cstr", n>> : n \in 1..NumOpaque }
Doubles == { <<"float64", n>> : n \in 1..NumOpaque }

Void == <<"void">>
\* what a caller reads as the result of a call that never produced one
Indeterminate == <<"indeterminate">>

\* An int64_t parameter or return value: the value as the 64-bit type holds it.
Int32Param(v) ==
    LET sign == IF v[4] >= Limb \div 2 THEN Limb - 1 ELSE 0
    IN  Int64(sign, sign, v[4] % Limb, v[5] % Limb)

Int64Param(v) == Int64(v[2] % Limb, v[3] % Limb, v[4] % Limb, v[5] % Limb)

Int64Return(r) == IF r[1] = "int64" THEN Int64Param(r) ELSE r

(* ----------------------------- stand-ins ------------------------------- *)

\* What the host's function p returns for the arguments it receives.  The
\* handle-returning functions return a fresh handle that names the function
\* and its arguments; the unboxing functions return the payload of a handle
\* made by the matching boxing function.
MadeBy(h, k) == Len(h) = 3 /\ h[1] = "made" /\ h[2][2] = k /\ Len(h[3]) = 1

StandIn(p, args) ==
    CASE p[2] = 3 -> Void
      [] p[2] = 7 -> IF Len(args) = 1 /\ MadeBy(args[1], 5)
                     THEN args[1][3][1] ELSE Zero64
      [] p[2] = 8 -> IF Len(args) = 1 /\ MadeBy(args[1], 6)
                     THEN args[1][3][1] ELSE <<"float64", 0>>
      [] OTHER -> <<"made", p, args>>

(* ------------------------------- state --------------------------------- *)

NoCall ==
    [ op |-> "none", args |-> <<>>, through |-> NULL, invoked |-> <<>>,
      ret |-> Void, outcome |-> "none" ]

\* call after a step of nbjit_init_runtime: the stand-ins' record is empty
InitStep == [NoCall EXCEPT !.op = "nbjit_init_runtime"]

RaceThreads == {1, 2}

NoArgs == [k \in 1..Len(Params) |-> NULL]

Init ==
    /\ fp = [s \in SlotNames |-> NULL]
    /\ installed = NoArgs
    /\ epoch = 0
    /\ call = NoCall
    /\ pc = [t \in RaceThreads |-> 0]
    /\ pend = [t \in RaceThreads |-> NoArgs]

\* a call through a null pointer may have killed the process
Alive == call.outcome # "fault"

(* ------------------------ nbjit_init_runtime --------------------------- *)

\* Variants of the initializer: two statics exchanged; a static kept once it
\* is set; a null argument skipped; the call refused when an argument is
\* null; the last store missing.
nbjit_init_runtime_swapped(dict_new, dict_getindex, dict_setindex_bang, symbol_from_cstr, box_int64, box_float64, unbox_int64, unbox_float64) ==
    [ dict_new |-> dict_new,
      dict_getindex |-> dict_setindex_bang,
      dict_setindex_bang |-> dict_getindex,
      symbol_from_cstr |-> symbol_from_cstr,
      box_int64 |-> box_int64,
      box_float64 |-> box_float64,
      unbox_int64 |-> unbox_int64,
      unbox_float64 |-> unbox_float64 ]

nbjit_init_runtime_once(dict_new, dict_getindex, dict_setindex_bang, symbol_from_cstr, box_int64, box_float64, unbox_int64, unbox_float64) ==
    LET keep(old, new) == IF old = NULL THEN new ELSE old
    IN  [ dict_new |-> keep(fp.dict_new, dict_new),
          dict_getindex |-> keep(fp.dict_getindex, dict_getindex),
          dict_setindex_bang |-> keep(fp.dict_setindex_bang, dict_setindex_bang),
          symbol_from_cstr |-> keep(fp.symbol_from_cstr, symbol_from_cstr),
          box_int64 |-> keep(fp.box_int64, box_int64),
          box_float64 |-> keep(fp.box_float64, box_float64),
          unbox_int64 |-> keep(fp.unbox_int64, unbox_int64),
          unbox_float64 |-> keep(fp.unbox_float64, unbox_float64) ]

nbjit_init_runtime_skipnull(dict_new, dict_getindex, dict_setindex_bang, symbol_from_cstr, box_int64, box_float64, unbox_int64, unbox_float64) ==
    LET set(old, new) == IF new = NULL THEN old ELSE new
    IN  [ dict_new |-> set(fp.dict_new, dict_new),
          dict_getindex |-> set(fp.dict_getindex, dict_getindex),
          dict_setindex_bang |-> set(fp.dict_setindex_bang, dict_setindex_bang),
          symbol_from_cstr |-> set(fp.symbol_from_cstr, symbol_from_cstr),
          box_int64 |-> set(fp.box_int64, box_int64),
          box_float64 |-> set(fp.box_float64, box_float64),
          unbox_int64 |-> set(fp.unbox_int64, unbox_int64),
          unbox_float64 |-> set(fp.unbox_float64, unbox_float64) ]

nbjit_init_runtime_checked(dict_new, dict_getindex, dict_setindex_bang, symbol_from_cstr, box_int64, box_float64, unbox_int64, unbox_float64) ==
    LET a == << dict_new, dict_getindex, dict_setindex_bang, symbol_from_cstr,
                box_int64, box_float64, unbox_int64, unbox_float64 >>
    IN  IF \E k \in 1..Len(a) : a[k] = NULL
        THEN fp
        ELSE [ s \in SlotNames |->
                 a[CHOOSE k \in 1..Len(Params) : Params[k] = s] ]

nbjit_init_runtime_short(dict_new, dict_getindex, dict_setindex_bang, symbol_from_cstr, box_int64, box_float64, unbox_int64, unbox_float64) ==
    [ dict_new |-> dict_new,
      dict_getindex |-> dict_getindex,
      dict_setindex_bang |-> dict_setindex_bang,
      symbol_from_cstr |-> symbol_from_cstr,
      box_int64 |-> box_int64,
      box_float64 |-> box_float64,
      unbox_int64 |-> unbox_int64,
      unbox_float64 |-> NULL ]

\* The table after the eight assignments of lines 51-58.
nbjit_init_runtime(dict_new, dict_getindex, dict_setindex_bang, symbol_from_cstr, box_int64, box_float64, unbox_int64, unbox_float64) ==
    [ dict_new |-> dict_new,
      dict_getindex |-> dict_getindex,
      dict_setindex_bang |-> dict_setindex_bang,
      symbol_from_cstr |-> symbol_from_cstr,
      box_int64 |-> box_int64,
      box_float64 |-> box_float64,
      unbox_int64 |-> unbox_int64,
      unbox_float64 |-> unbox_float64 ]

\* the table a call nbjit_init_runtime(a[1], ..., a[8]) leaves
TableAfter(a) ==
    nbjit_init_runtime(a[1], a[2], a[3], a[4], a[5], a[6], a[7], a[8])

\* The argument lists the host passes: fresh stand-ins of call e, with the
\* arguments at the positions in N null.
NullArgSets ==
    { N \in SUBSET (1..Len(Params)) :
        Cardinality(N) <= MaxNullArgs \/ N = 1..Len(Params) }

ArgsOf(e, N) ==
    [k \in 1..Len(Params) |-> IF k \in N THEN NULL ELSE StandInFor(e, k)]

\* One serialized call of nbjit_init_runtime, start to return.
Initialize(N) ==
    /\ Alive
    /\ epoch < MaxInits
    /\ \A t \in RaceThreads : pc[t] = 0
    /\ fp' = TableAfter(ArgsOf(epoch + 1, N))
    /\ installed' = ArgsOf(epoch + 1, N)
    /\ epoch' = epoch + 1
    /\ call' = InitStep
    /\ UNCHANGED <<pc, pend>>

(* ------------------------------ the stubs ------------------------------ *)

\* some slots hold functions of one installation, others of another or none
Mixed(f) == \E s, u \in SlotNames : f[s][1] # f[u][1]

\* The outcomes of "return p(args...)" (lines 63-91).  received is the
\* argument list as the callee's parameters hold it.  Calling through the
\* null pointer is undefined: the process is killed, or the call returns
\* without any function having run.
Forward(op, p, passed, received) ==
    LET c == [ op |-> op, args |-> passed, through |-> p, invoked |-> <<>>,
               ret |-> Indeterminate, outcome |-> "fault" ]
    IN  IF p = NULL
        THEN { c,
               [c EXCEPT !.outcome = "returned",
                         !.ret = IF op = "nbjit_dict_setindex_bang"
                                 THEN Void ELSE Indeterminate] }
        ELSE { [c EXCEPT !.outcome = "returned",
                         !.invoked = << [fn |-> p, args |-> received] >>,
                         !.ret = StandIn(p, received)] }

Frame == UNCHANGED <<fp, installed, epoch, pc, pend>>

\* a stub that consumes its binding
nbjit_dict_new_consuming ==
    /\ Alive
    /\ call' \in Forward("nbjit_dict_new", fp.dict_new, <<>>, <<>>)
    /\ fp' = [fp EXCEPT !.dict_new = NULL]
    /\ UNCHANGED <<installed, epoch, pc, pend>>

nbjit_dict_new ==
    /\ Alive
    /\ call' \in Forward("nbjit_dict_new", fp.dict_new, <<>>, <<>>)
    /\ Frame

nbjit_dict_getindex(dict, key) ==
    /\ Alive
    /\ call' \in Forward("nbjit_dict_getindex", fp.dict_getindex,
                         <<dict, key>>, <<dict, key>>)
    /\ Frame

nbjit_dict_setindex_bang(dict, value, key) ==
    /\ Alive
    /\ call' \in Forward("nbjit_dict_setindex_bang", fp.dict_setindex_bang,
                         <<dict, value, key>>, <<dict, value, key>>)
    /\ Frame

nbjit_symbol_from_cstr(str) ==
    /\ Alive
    /\ call' \in Forward("nbjit_symbol_from_cstr", fp.symbol_from_cstr,
                         <<str>>, <<str>>)
    /\ Frame

nbjit_box_int64(val) ==
    /\ Alive
    /\ call' \in Forward("nbjit_box_int64", fp.box_int64,
                         <<val>>, <<Int64Param(val)>>)
    /\ Frame

nbjit_box_float64(val) ==
    /\ Alive
    /\ call' \in Forward("nbjit_box_float64", fp.box_float64,
                         <<val>>, <<val>>)
    /\ Frame

\* a stub that reads the boxing slot
nbjit_unbox_int64_aliased(ptr) ==
    /\ Alive
    /\ call' \in { [c EXCEPT !.ret = Int64Return(c.ret)] :
                   c \in Forward("nbjit_unbox_int64", fp.box_int64,
                                 <<ptr>>, <<ptr>>) }
    /\ Frame

nbjit_unbox_int64(ptr) ==
    /\ Alive
    /\ call' \in { [c EXCEPT !.ret = Int64Return(c.ret)] :
                   c \in Forward("nbjit_unbox_int64", fp.unbox_int64,
                                 <<ptr>>, <<ptr>>) }
    /\ Frame

nbjit_unbox_float64(ptr) ==
    /\ Alive
    /\ call' \in Forward("nbjit_unbox_float64", fp.unbox_float64,
                         <<ptr>>, <<ptr>>)
    /\ Frame

\* The handles a caller can pass to an unboxing stub: the opaque ones it
\* holds, and the one the boxing stub op has just returned to it.
HandleArgs(op) == Handles \cup (IF call.op = op THEN {call.ret} ELSE {})

Next ==
    \/ \E N \in NullArgSets : Initialize(N)
    \/ nbjit_dict_new
    \/ \E d, k \in Handles : nbjit_dict_getindex(d, k)
    \/ \E d, v, k \in Handles : nbjit_dict_setindex_bang(d, v, k)
    \/ \E s \in CStrings : nbjit_symbol_from_cstr(s)
    \/ \E v \in Int64Vals : nbjit_box_int64(v)
    \/ \E v \in Doubles : nbjit_box_float64(v)
    \/ \E h \in HandleArgs("nbjit_box_int64") : nbjit_unbox_int64(h)
    \/ \E h \in HandleArgs("nbjit_box_float64") : nbjit_unbox_float64(h)

Spec == Init /\ [][Next]_vars

StubOps ==
    { "nbjit_dict_new", "nbjit_dict_getindex", "nbjit_dict_setindex_bang",
      "nbjit_symbol_from_cstr", "nbjit_box_int64", "nbjit_box_float64",
      "nbjit_unbox_int64", "nbjit_unbox_float64" }

\* the static a stub reads (lines 63, 67, 71, 75, 79, 83, 87, 91)
SlotOf(op) ==
    CASE op = "nbjit_dict_new" -> "dict_new"
      [] op = "nbjit_dict_getindex" -> "dict_getindex"
      [] op = "nbjit_dict_setindex_bang" -> "dict_setindex_bang"
      [] op = "nbjit_symbol_from_cstr" -> "symbol_from_cstr"
      [] op = "nbjit_box_int64" -> "box_int64"
      [] op = "nbjit_box_float64" -> "box_float64"
      [] op = "nbjit_unbox_int64" -> "unbox_int64"
      [] op = "nbjit_unbox_float64" -> "unbox_float64"

\* position of a static among the parameters of nbjit_init_runtime
ParamIndex(s) == CHOOSE k \in 1..Len(Params) : Params[k] = s

TypeOK ==
    /\ DOMAIN fp = SlotNames
    /\ epoch \in 0..MaxInits
    /\ call.op \in StubOps \cup {"none", "nbjit_init_runtime"}

(* ------------------- unserialized nbjit_init_runtime ------------------- *)

\* Lines 51-58 are eight plain stores with no lock, fence or atomic, so a
\* call running on one thread is visible to other threads store by store.
\* pc[t] = 0: thread t has not called; 1..8: its next store is the pc[t]-th
\* assignment; 9: it has returned.

\* atomic publication of the whole table at the first store
StoreAll(f, a, k) == IF k = 1 THEN TableAfter(a) ELSE f

\* the k-th assignment of a call with arguments a, applied to table f
StoreSlot(f, a, k) == [f EXCEPT ![Params[k]] = TableAfter(a)[Params[k]]]

RaceEnter(t) ==
    /\ Alive
    /\ pc[t] = 0
    /\ epoch < MaxInits
    /\ pend' = [pend EXCEPT ![t] = ArgsOf(epoch + 1, {})]
    /\ pc' = [pc EXCEPT ![t] = 1]
    /\ epoch' = epoch + 1
    /\ call' = InitStep
    /\ UNCHANGED <<fp, installed>>

RaceStore(t) ==
    /\ Alive
    /\ pc[t] \in 1..Len(Params)
    /\ fp' = StoreSlot(fp, pend[t], pc[t])
    /\ pc' = [pc EXCEPT ![t] = pc[t] + 1]
    /\ installed' = IF pc[t] = Len(Params) THEN pend[t] ELSE installed
    /\ call' = InitStep
    /\ UNCHANGED <<epoch, pend>>

RaceNext ==
    \/ \E t \in RaceThreads : RaceEnter(t)
    \/ \E t \in RaceThreads : RaceStore(t)
    \/ nbjit_dict_new
    \/ \E d, k \in Handles : nbjit_dict_getindex(d, k)
    \/ \E d, v, k \in Handles : nbjit_dict_setindex_bang(d, v, k)
    \/ \E s \in CStrings : nbjit_symbol_from_cstr(s)
    \/ \E v \in Int64Vals : nbjit_box_int64(v)
    \/ \E v \in Doubles : nbjit_box_float64(v)
    \/ \E h \in HandleArgs("nbjit_box_int64") : nbjit_unbox_int64(h)
    \/ \E h \in HandleArgs("nbjit_box_float64") : nbjit_unbox_float64(h)

SpecRace == Init /\ [][RaceNext]_vars

(* ------------------------------ properties ----------------------------- *)

\* the parameter position of the static that the stub of the last call reads
CalledParam == ParamIndex(SlotOf(call.op))

Uninitialized(f) == \A s \in SlotNames : f[s] = NULL
Initialized(f) == \A s \in SlotNames : f[s] # NULL

\* C1: after a completed initialize(f1..f8) with non-null fi, forwarding
\* operation i returns normally, invokes fi and nothing else, exactly once,
\* with the caller's arguments in the caller's order, and returns what fi
\* returned for them; fi is the function passed as the i-th parameter.
C1_ForwardsToInstalled ==
    (call.op \in StubOps /\ installed[CalledParam] # NULL) =>
        LET f == installed[CalledParam]
        IN  /\ call.outcome = "returned"
            /\ call.invoked = << [fn |-> f, args |-> call.args] >>
            /\ call.ret = StandIn(f, call.args)
            /\ f = StandInFor(epoch, CalledParam)

C1_Witness ==
    /\ call.op = "nbjit_dict_setindex_bang"
    /\ Len(call.invoked) = 1
    /\ call.args[1] # call.args[2]
    /\ call.args[2] = call.args[3]

\* C2: a forwarding operation invoked when initialize has never been called
\* ends in the uninitialized-binding fault: it does not return as if it had
\* succeeded and it invokes no callable.
C2_UninitializedFault ==
    (call.op \in StubOps /\ epoch = 0) =>
        (call.outcome = "fault" /\ call.invoked = <<>>)

\* C3: a forwarding call resolves to what the most recent completed
\* initialize supplied for its slot; no slot holds, and no call invokes, a
\* function of an earlier installation.
C3_MostRecentBinding ==
    /\ \A s \in SlotNames : fp[s] = NULL \/ fp[s][1] = epoch
    /\ call.op \in StubOps =>
          /\ call.through = installed[CalledParam]
          /\ \A i \in 1..Len(call.invoked) :
                /\ call.invoked[i].fn = installed[CalledParam]
                /\ call.invoked[i].fn[1] = epoch

C3_Witness ==
    /\ epoch >= 2
    /\ call.op \in StubOps
    /\ Len(call.invoked) = 1
    /\ call.invoked[1].fn[1] = epoch

\* C4 as stated: between operations the table is all-or-nothing, every slot
\* unset or every slot set.
C4_AllOrNothing == Uninitialized(fp) \/ Initialized(fp)

\* C4 as amended: between operations a slot is unset exactly when no
\* initialize has been called or the most recent one passed a null argument
\* for it, so the table is partially set exactly when that call mixed null
\* and non-null arguments.
C4_SetAsPassed ==
    /\ epoch = 0 => Uninitialized(fp)
    /\ \A k \in 1..Len(Params) : (fp[Params[k]] = NULL) <=> (installed[k] = NULL)

C4_Witness ==
    /\ epoch >= 1
    /\ ~Uninitialized(fp)
    /\ ~Initialized(fp)

\* C5 as stated: once the table has left the uninitialized state, no
\* forwarding call and no further initialize returns it there.
C5_OneWay == [][~Uninitialized(fp) => ~Uninitialized(fp')]_vars

\* C5 as amended: the table starts uninitialized; an initialize with eight
\* non-null arguments leads to the initialized state from any state;
\* forwarding calls never change the state; the table leaves the initialized
\* state only by an initialize that passes a null argument, and returns to
\* uninitialized only by an initialize that passes eight null arguments.
C5_Transitions ==
    /\ [](epoch = 0 => Uninitialized(fp))
    /\ [][ /\ epoch' = epoch => fp' = fp
           /\ (epoch' # epoch /\ \A k \in 1..Len(Params) : installed'[k] # NULL)
                => Initialized(fp')
           /\ (Initialized(fp) /\ ~Initialized(fp'))
                => (epoch' # epoch /\ \E k \in 1..Len(Params) : installed'[k] = NULL)
           /\ (~Uninitialized(fp) /\ Uninitialized(fp'))
                => (epoch' # epoch /\ \A k \in 1..Len(Params) : installed'[k] = NULL)
         ]_vars

C5_Witness ==
    /\ epoch >= 2
    /\ call.op = "nbjit_init_runtime"
    /\ Uninitialized(fp)

\* C6: with initialize running as eight separate stores beside other
\* threads, the slots a call has already stored hold its functions while the
\* others still hold an earlier installation or are unset, and a forwarding
\* call reads whatever its slot holds at that moment.
C6_StoreByStore ==
    /\ \A k \in 1..Len(Params) :
          LET W == { t \in RaceThreads : pc[t] > k }
          IN  IF W = {} THEN fp[Params[k]] = NULL
                        ELSE fp[Params[k]] \in { pend[t][k] : t \in W }
    /\ call.op \in StubOps =>
          /\ call.through = fp[SlotOf(call.op)]
          /\ call.through # NULL =>
                call.invoked = << [fn |-> call.through, args |-> call.args] >>

C6_Witness ==
    /\ call.op \in StubOps
    /\ Len(call.invoked) = 1
    /\ Mixed(fp)
    /\ \E t \in RaceThreads : pc[t] \in 2..Len(Params)
    /\ \E s \in SlotNames : fp[s] # NULL /\ fp[s][1] # call.through[1]

\* C7: with a boxing stand-in mapping v to a handle Hv and an unboxing
\* stand-in mapping Hv back to v installed by one initialize,
\* unbox_integer(box_integer(v)) = v; the box call reaches only the box_int64
\* binding and the unbox call only the unbox_int64 binding, which differ.
C7_BoxUnboxRoundTrip ==
    LET box == installed[ParamIndex("box_int64")]
        unbox == installed[ParamIndex("unbox_int64")]
    IN  (box # NULL /\ unbox # NULL) =>
          /\ call.op = "nbjit_box_int64" =>
                /\ call.invoked = << [fn |-> box, args |-> call.args] >>
                /\ call.ret = <<"made", box, call.args>>
          /\ (call.op = "nbjit_unbox_int64" /\ Len(call.args[1]) = 3) =>
                /\ call.args[1][2] = box
                /\ call.invoked = << [fn |-> unbox, args |-> call.args] >>
                /\ call.ret = call.args[1][3][1]
                /\ unbox # box

C7_Witness ==
    /\ call.op = "nbjit_unbox_int64"
    /\ call.args = << <<"made", installed[ParamIndex("box_int64")], <<FortyTwo>>>> >>
    /\ Len(call.invoked) = 1
    /\ call.ret = FortyTwo

\* C8: box_integer hands the bound function the caller's 64-bit value
\* unchanged, for the minimum, -1, 0 and the maximum, and unbox_integer
\* returns the bound function's 64-bit result unchanged.
C8_Int64Unchanged ==
    /\ (call.op = "nbjit_box_int64" /\ Len(call.invoked) = 1) =>
          /\ call.args[1] \in Int64Vals
          /\ call.invoked[1].args = call.args
    /\ (call.op = "nbjit_unbox_int64" /\ Len(call.invoked) = 1) =>
          call.ret = StandIn(call.invoked[1].fn, call.invoked[1].args)

C8_Witness ==
    /\ call.op = "nbjit_unbox_int64"
    /\ Len(call.invoked) = 1
    /\ call.ret = MinInt64

\* C9: a forwarding call leaves all eight slots as they were; only
\* initialize changes a slot.
C9_StubsOnlyRead ==
    [][ /\ call'.op \in StubOps => fp' = fp
        /\ fp' # fp => call'.op = "nbjit_init_runtime" ]_vars

C9_Witness ==
    /\ call.op = "nbjit_dict_new"
    /\ Len(call.invoked) = 1
    /\ fp = TableAfter(installed)

\* C10: initialize validates nothing: whatever it is passed, afterwards
\* every slot holds exactly its argument, so a slot whose argument was null
\* is unset and the others are set; a forwarding call through the former is
\* a call through an unset slot, and through the latter reaches the
\* installed function.
C10_NoValidation ==
    /\ epoch >= 1 => \A k \in 1..Len(Params) : fp[Params[k]] = installed[k]
    /\ (call.op \in StubOps /\ epoch >= 1) =>
          IF installed[CalledParam] = NULL
          THEN call.through = NULL /\ call.invoked = <<>>
          ELSE /\ call.through = installed[CalledParam]
               /\ Len(call.invoked) = 1

C10_Witness ==
    /\ epoch >= 2
    /\ call.op \in StubOps
    /\ call.through = NULL
    /\ \E k \in 1..Len(Params) : installed[k] # NULL

====
